---- MODULE Spec2Model ----
(***************************************************************************)
(* Model of the mcp-unity screenshot capture handler                       *)
(* (Editor/Tools/CaptureScreenshotTool.cs) and of the scene tool wrappers  *)
(* of the Node server (Server~/src/tools/*.ts).                            *)
(*                                                                         *)
(* Strings are sequences of tokens: one token per character wherever the   *)
(* code inspects or transforms characters (mode, resolution, numbers), one *)
(* token per literal fragment elsewhere.                                   *)
(***************************************************************************)
EXTENDS Integers, Sequences, FiniteSets, TLC

\* ------------------------------------------------------------------ bounds
MaxTasks == 1        \* capture requests submitted in one run of Spec
MaxConcTasks == 2    \* capture requests submitted in one run of SpecConc
MaxClock == 1        \* the clock runs over 0..MaxClock milliseconds
MaxCalls == 1        \* tool invocations in one run of SpecTools

\* ----------------------------------------------------------------- strings
UpperChars == <<"A","B","C","D","E","F","G","H","I","J","K","L","M",
                "N","O","P","Q","R","S","T","U","V","W","X","Y","Z">>
LowerChars == <<"a","b","c","d","e","f","g","h","i","j","k","l","m",
                "n","o","p","q","r","s","t","u","v","w","x","y","z">>

ToLowerChar(c) ==
    IF \E i \in 1..Len(UpperChars) : UpperChars[i] = c
    THEN LowerChars[CHOOSE i \in 1..Len(UpperChars) : UpperChars[i] = c]
    ELSE c

\* string.ToLower()
ToLower(s) == [i \in 1..Len(s) |-> ToLowerChar(s[i])]

DigitChars == <<"0","1","2","3","4","5","6","7","8","9">>

\* decimal rendering of a non-negative integer ($"{width}")
RECURSIVE ToDecimal(_)
ToDecimal(n) ==
    IF n < 10 THEN <<DigitChars[n + 1]>>
    ELSE ToDecimal(n \div 10) \o <<DigitChars[(n % 10) + 1]>>

\* the "fff" field: milliseconds, zero padded to three digits
Fff(ms) ==
    LET d == ToDecimal(ms % 1000)
    IN  IF Len(d) = 1 THEN <<"0","0">> \o d
        ELSE IF Len(d) = 2 THEN <<"0">> \o d
        ELSE d

\* DateTime.ToString("yyyy-MM-dd_HH-mm-ss-fff") of a clock reading in
\* milliseconds; the clock of the model stays within one second, whose date
\* and time are one token
FormatTimestamp(ms) == <<"yyyy-MM-dd_HH-mm-ss-">> \o Fff(ms)

S_basic  == <<"b","a","s","i","c">>
S_labels == <<"l","a","b","e","l","s">>
S_debug  == <<"d","e","b","u","g">>
S_custom == <<"c","u","s","t","o","m">>
S_Debug  == <<"D","e","b","u","g">>
S_wire   == <<"w","i","r","e">>
S_1080p  == <<"1","0","8","0","p">>
S_1440p  == <<"1","4","4","0","p">>
S_4K     == <<"4","K">>
S_4k     == <<"4","k">>
S_8K     == <<"8","K">>

\* ------------------------------------------------------------- JSON tokens
JAbsent   == [t |-> "absent"]
JBool(b)  == [t |-> "bool", b |-> b]
JStr(s)   == [t |-> "string", s |-> s]

Params(m, g, l, r) == [mode |-> m, withGizmos |-> g, withLabels |-> l, resolution |-> r]

\* the capture requests of Spec: the standard modes with each withGizmos, the
\* other spellings of mode, a withGizmos that is no boolean, and each resolution
StandardModes == {JStr(S_basic), JStr(S_labels), JStr(S_debug), JStr(S_custom)}
OtherModes == {JAbsent, JStr(S_Debug), JStr(S_wire)}
ResolutionTokens == {JStr(S_1080p), JStr(S_1440p), JStr(S_4K), JStr(S_8K)}

Requests ==
    { Params(m, JBool(g), JAbsent, JAbsent) : m \in StandardModes, g \in BOOLEAN }
    \cup { Params(m, JAbsent, JAbsent, JAbsent) : m \in OtherModes }
    \cup { Params(JStr(S_custom), JStr(<<"x">>), JAbsent, JAbsent) }
    \cup { Params(JAbsent, JAbsent, JBool(TRUE), r) : r \in ResolutionTokens }

\* the capture requests of SpecConc
ConcRequests ==
    { Params(JStr(S_basic), JAbsent, JAbsent, JAbsent),
      Params(JStr(S_labels), JAbsent, JAbsent, JStr(S_4K)),
      Params(JStr(S_custom), JBool(FALSE), JAbsent, JAbsent) }


\* ------------------------------------------------------------------- state
VARIABLES
    tasks,               \* the closures handed to delayCall: parameters, position, locals
    tcs,                 \* the TaskCompletionSource of each task
    delayCall,           \* EditorApplication.delayCall: the callbacks not yet invoked
    sceneView,           \* what SceneView.lastActiveSceneView / GetWindow yield
    cameraPresent,       \* sceneView.camera != null
    drawGizmos,          \* sceneView.drawGizmos
    cameraTarget,        \* camera.targetTexture
    activeTarget,        \* RenderTexture.active
    tempSurfaces,        \* temporary render textures handed out and not released
    dirExists,           \* Directory.Exists(screenshotDir)
    files,               \* the files of the screenshot directory, with their writer
    now,                 \* DateTime.Now, in milliseconds
    obs,                 \* per task: what an observer of the invocation recorded
    calls,               \* tool handler invocations of the Node server
    sent,                \* the requests handed to mcpUnity.sendRequest
    rpc,                 \* the RPC client: pending-call table, futures, transport
    router               \* the responses the command router returned by itself

engineVars == <<tasks, tcs, delayCall, sceneView, cameraPresent, drawGizmos,
                cameraTarget, activeTarget, tempSurfaces, dirExists, files, now, obs>>
toolVars == <<calls, sent, rpc, router>>
vars == <<tasks, tcs, delayCall, sceneView, cameraPresent, drawGizmos,
          cameraTarget, activeTarget, tempSurfaces, dirExists, files, now, obs,
          calls, sent, rpc, router>>

TaskIds == 1..Len(tasks)

NoTarget == <<>>
SceneViewTarget == <<"sceneViewTarget">>
TempSurface(t) == <<"temporary", t>>

NoPending == [kind |-> "none"]
Throw(e) == [kind |-> "throw", exc |-> e]
Return(r) == [kind |-> "return", value |-> r]

NoLocals ==
    [mode |-> <<>>, withGizmos |-> FALSE, withLabels |-> FALSE,
     width |-> 0, height |-> 0, timestamp |-> <<>>, filePath |-> <<>>,
     currentGizmos |-> FALSE, renderTexture |-> NoTarget,
     previousTarget |-> NoTarget, previousActive |-> NoTarget,
     pending |-> NoPending, result |-> <<>>]

NoObs ==
    [steps |-> {}, entryGizmos |-> FALSE, gizmoWrites |-> 0, createdDir |-> FALSE,
     allocs |-> 0, releases |-> 0, redirected |-> FALSE,
     targetBefore |-> NoTarget, activeBefore |-> NoTarget,
     snapGizmos |-> <<>>, snapTarget |-> <<>>,
     renderGizmos |-> <<>>, wrote |-> <<>>]

\* McpUnitySocketHandler.CreateErrorResponse(message, errorType)
CreateErrorResponse(message, errorType) ==
    [success |-> FALSE, message |-> message, type |-> errorType]

InitEngine ==
    /\ tasks = <<>>
    /\ tcs = <<>>
    /\ delayCall = <<>>
    /\ sceneView \in {"lastActive", "window", "null", "throws"}
    /\ cameraPresent \in BOOLEAN
    /\ (sceneView \in {"null", "throws"} => cameraPresent)
    /\ drawGizmos \in BOOLEAN
    /\ cameraTarget = SceneViewTarget
    /\ activeTarget = NoTarget
    /\ tempSurfaces = {}
    /\ dirExists \in BOOLEAN
    /\ files = {}
    /\ now = 0
    /\ obs = <<>>

\* an RPC client that has sent nothing: empty pending-call table, no future
NoRpc == [pending |-> {}, futures |-> <<>>, wire |-> <<>>, answered |-> {}, dropped |-> 0]

InitToolsIdle ==
    /\ calls = <<>>
    /\ sent = <<>>
    /\ rpc = NoRpc
    /\ router = <<>>

Init == InitEngine /\ InitToolsIdle

\* the runs of SpecConc start with a scene view whose camera exists, or with a
\* window lookup that throws
InitConc ==
    /\ Init
    /\ sceneView \in {"lastActive", "throws"}
    /\ cameraPresent
    /\ ~dirExists

\* ------------------------------------------------ parameter extraction
\* parameters[k]?.ToObject<string>()?.ToLower() ?? dflt
ExtractLowerString(tok, dflt) ==
    IF tok.t = "string" THEN ToLower(tok.s) ELSE dflt

\* ToObject<bool>() throws on a token that is no boolean
ExtractThrows(p) ==
    \/ p.withGizmos.t = "string"
    \/ p.withLabels.t = "string"

\* parameters[k]?.ToObject<bool>() ?? dflt
ExtractBool(tok, dflt) ==
    IF tok.t = "bool" THEN tok.b ELSE dflt

DefaultWidth == 1920
DefaultHeight == 1080
QhdWidth == 2560
QhdHeight == 1440
UhdWidth == 3840
UhdHeight == 2160

\* the switch with the case label spelled as the client spells it ("4K")
DimensionsUpperCaseLabel(resolution) ==
    IF resolution = S_1440p THEN [width |-> QhdWidth, height |-> QhdHeight]
    ELSE IF resolution = S_4K THEN [width |-> UhdWidth, height |-> UhdHeight]
    ELSE [width |-> DefaultWidth, height |-> DefaultHeight]

\* the switch over the lower-cased resolution
Dimensions(resolution) ==
    IF resolution = S_1440p THEN [width |-> QhdWidth, height |-> QhdHeight]
    ELSE IF resolution = S_4k THEN [width |-> UhdWidth, height |-> UhdHeight]
    ELSE [width |-> DefaultWidth, height |-> DefaultHeight]

\* ---------------------------------------------------------- the dispatcher
\* ExecuteAsync: the closure is added to delayCall, nothing else happens
ExecuteAsync(p, max) ==
    /\ Len(tasks) < max
    /\ tasks' = Append(tasks, [params |-> p, pc |-> "queued", loc |-> NoLocals])
    /\ tcs' = Append(tcs, [status |-> "pending", value |-> <<>>, sets |-> 0])
    /\ obs' = Append(obs, NoObs)
    /\ delayCall' = Append(delayCall, Len(tasks) + 1)
    /\ UNCHANGED <<sceneView, cameraPresent, drawGizmos, cameraTarget, activeTarget,
                   tempSurfaces, dirExists, files, now>>
    /\ UNCHANGED toolVars

\* callbacks started without waiting for the running one
MainThreadNeverBusy == TRUE

\* the closure is synchronous: the main thread runs one callback to its end
\* before it invokes the next
MainThreadIdle == \A u \in TaskIds : tasks[u].pc \in {"queued", "done"}

EngineFrame == UNCHANGED <<delayCall, sceneView, cameraPresent, drawGizmos, cameraTarget,
                           activeTarget, tempSurfaces, dirExists, files, now>>

\* a callback that gives up when the client's wait for its request has timed out
RunClosureUnlessTimedOut(t) ==
    /\ delayCall # <<>>
    /\ Head(delayCall) = t
    /\ MainThreadIdle
    /\ delayCall' = Tail(delayCall)
    /\ LET p == tasks[t].params
           resolution == ExtractLowerString(p.resolution, S_1080p)
           dim == Dimensions(resolution)
       IN  IF t <= Len(rpc.futures) /\ rpc.futures[t].status = "timeout"
           THEN tasks' = [tasks EXCEPT ![t].pc = "done"]
           ELSE IF ExtractThrows(p)
           THEN tasks' = [tasks EXCEPT ![t].pc = "catchOuter",
                                       ![t].loc.pending = Throw("FormatException")]
           ELSE tasks' = [tasks EXCEPT
                    ![t].pc = "resolve",
                    ![t].loc.mode = ExtractLowerString(p.mode, S_basic),
                    ![t].loc.withGizmos = ExtractBool(p.withGizmos, TRUE),
                    ![t].loc.withLabels = ExtractBool(p.withLabels, FALSE),
                    ![t].loc.width = dim.width,
                    ![t].loc.height = dim.height]
    /\ obs' = [obs EXCEPT ![t].steps = @ \cup {"validating"}]
    /\ UNCHANGED <<tcs, sceneView, cameraPresent, drawGizmos, cameraTarget, activeTarget,
                   tempSurfaces, dirExists, files, now>>
    /\ UNCHANGED toolVars

\* the main thread invokes the oldest callback: lines 33-54
RunClosure(t) ==
    /\ delayCall # <<>>
    /\ Head(delayCall) = t
    /\ MainThreadIdle
    /\ delayCall' = Tail(delayCall)
    /\ LET p == tasks[t].params
           resolution == ExtractLowerString(p.resolution, S_1080p)
           dim == Dimensions(resolution)
       IN  IF ExtractThrows(p)
           THEN tasks' = [tasks EXCEPT ![t].pc = "catchOuter",
                                       ![t].loc.pending = Throw("FormatException")]
           ELSE tasks' = [tasks EXCEPT
                    ![t].pc = "resolve",
                    ![t].loc.mode = ExtractLowerString(p.mode, S_basic),
                    ![t].loc.withGizmos = ExtractBool(p.withGizmos, TRUE),
                    ![t].loc.withLabels = ExtractBool(p.withLabels, FALSE),
                    ![t].loc.width = dim.width,
                    ![t].loc.height = dim.height]
    /\ obs' = [obs EXCEPT ![t].steps = @ \cup {"validating"}]
    /\ UNCHANGED <<tcs, sceneView, cameraPresent, drawGizmos, cameraTarget, activeTarget,
                   tempSurfaces, dirExists, files, now>>
    /\ UNCHANGED toolVars

\* ------------------------------------------- CaptureSceneViewScreenshot
At(t, where) == t \in TaskIds /\ tasks[t].pc = where

\* lines 78-90: the scene view is looked up; nothing is in a try block yet
ResolveSceneView(t) ==
    /\ At(t, "resolve")
    /\ obs' = [obs EXCEPT ![t].steps = @ \cup {"resolvingTarget"},
                          ![t].entryGizmos = drawGizmos]
    /\ tasks' = IF sceneView \in {"lastActive", "window"}
                THEN [tasks EXCEPT ![t].pc = "prepare"]
                ELSE IF sceneView = "null"
                THEN [tasks EXCEPT
                        ![t].pc = "setResult",
                        ![t].loc.result =
                            <<CreateErrorResponse(
                                <<"No Scene View available for screenshot capture">>,
                                "no_scene_view")>>]
                ELSE [tasks EXCEPT ![t].pc = "catchOuter",
                                   ![t].loc.pending = Throw("GetWindowException")]
    /\ UNCHANGED tcs
    /\ EngineFrame
    /\ UNCHANGED toolVars

ScreenshotDir == <<"<dataPath>/../Temp/MCPScreenshots/">>

\* $"MCP_SceneView_{mode}_{timestamp}.png" under the screenshot directory
FilePath(mode, timestamp) ==
    ScreenshotDir \o <<"MCP_SceneView_">> \o mode \o <<"_">> \o timestamp \o <<".png">>

\* lines 94-107: directory, file name, camera reference
Prepare(t) ==
    /\ At(t, "prepare")
    /\ \E createOutcome \in {"ok", "throws"} :
          LET timestamp == FormatTimestamp(now)
              proceed == [tasks EXCEPT
                            ![t].pc = "configure",
                            ![t].loc.timestamp = timestamp,
                            ![t].loc.filePath = FilePath(tasks[t].loc.mode, timestamp)]
          IN  IF dirExists
              THEN /\ createOutcome = "ok"
                   /\ tasks' = proceed
                   /\ obs' = [obs EXCEPT ![t].steps = @ \cup {"prepare"}]
                   /\ UNCHANGED dirExists
              ELSE IF createOutcome = "ok"
              THEN /\ tasks' = proceed
                   /\ dirExists' = TRUE
                   /\ obs' = [obs EXCEPT ![t].steps = @ \cup {"prepare"},
                                         ![t].createdDir = TRUE]
              ELSE /\ tasks' = [tasks EXCEPT ![t].pc = "catchInner",
                                             ![t].loc.pending = Throw("IOException")]
                   /\ obs' = [obs EXCEPT ![t].steps = @ \cup {"prepare"}]
                   /\ UNCHANGED dirExists
    /\ UNCHANGED <<tcs, delayCall, sceneView, cameraPresent, drawGizmos, cameraTarget,
                   activeTarget, tempSurfaces, files, now>>
    /\ UNCHANGED toolVars

\* the switch over mode, lines 114-126: does the mode assign drawGizmos
ModeWritesGizmos(mode) == mode \in {S_basic, S_labels, S_debug, S_custom}

\* a switch that forces the flag off for basic and lets the withGizmos
\* parameter decide for every other mode
ModeGizmosFromParameter(mode, withGizmos) ==
    IF mode = S_basic THEN FALSE ELSE withGizmos

\* the value the switch assigns
ModeGizmos(mode, withGizmos) ==
    IF mode = S_basic THEN FALSE
    ELSE IF mode \in {S_labels, S_debug} THEN TRUE
    ELSE withGizmos

\* lines 110-129: snapshot drawGizmos, apply the mode
Configure(t) ==
    /\ At(t, "configure")
    /\ LET mode == tasks[t].loc.mode
           writes == ModeWritesGizmos(mode)
       IN  /\ tasks' = [tasks EXCEPT ![t].pc = "camera",
                                     ![t].loc.currentGizmos = drawGizmos]
           /\ drawGizmos' = IF writes THEN ModeGizmos(mode, tasks[t].loc.withGizmos)
                            ELSE drawGizmos
           /\ obs' = [obs EXCEPT ![t].steps = @ \cup {"configuring"},
                                 ![t].snapGizmos = <<drawGizmos>>,
                                 ![t].gizmoWrites = IF writes THEN @ + 1 ELSE @]
    /\ UNCHANGED <<tcs, delayCall, sceneView, cameraPresent, cameraTarget,
                   activeTarget, tempSurfaces, dirExists, files, now>>
    /\ UNCHANGED toolVars

\* lines 131-142: the camera check, then the temporary render texture
AcquireSurface(t) ==
    /\ At(t, "camera")
    /\ IF ~cameraPresent
       THEN /\ tasks' = [tasks EXCEPT
                            ![t].pc = "restore",
                            ![t].loc.pending =
                                Return(CreateErrorResponse(
                                    <<"Scene View camera not available">>, "no_camera"))]
            /\ obs' = [obs EXCEPT ![t].steps = @ \cup {"cameraCheck"}]
            /\ UNCHANGED tempSurfaces
       ELSE /\ tasks' = [tasks EXCEPT
                            ![t].pc = "redirect",
                            ![t].loc.renderTexture = TempSurface(t),
                            ![t].loc.previousTarget = cameraTarget,
                            ![t].loc.previousActive = activeTarget]
            /\ tempSurfaces' = tempSurfaces \cup {TempSurface(t)}
            /\ obs' = [obs EXCEPT ![t].steps = @ \cup {"cameraCheck"},
                                  ![t].snapTarget = <<cameraTarget>>,
                                  ![t].allocs = @ + 1]
    /\ UNCHANGED <<tcs, delayCall, sceneView, cameraPresent, drawGizmos, cameraTarget,
                   activeTarget, dirExists, files, now>>
    /\ UNCHANGED toolVars

\* lines 146-147: the camera and the active target are redirected
Redirect(t) ==
    /\ At(t, "redirect")
    /\ cameraTarget' = tasks[t].loc.renderTexture
    /\ activeTarget' = tasks[t].loc.renderTexture
    /\ tasks' = [tasks EXCEPT ![t].pc = "render"]
    /\ obs' = [obs EXCEPT ![t].steps = @ \cup {"redirect"},
                          ![t].redirected = TRUE,
                          ![t].targetBefore = cameraTarget,
                          ![t].activeBefore = activeTarget]
    /\ UNCHANGED <<tcs, delayCall, sceneView, cameraPresent, drawGizmos,
                   tempSurfaces, dirExists, files, now>>
    /\ UNCHANGED toolVars

\* lines 149-153: render pass and read-back; either may throw
Render(t) ==
    /\ At(t, "render")
    /\ \E outcome \in {"ok", "throws"} :
          tasks' = IF outcome = "ok"
                   THEN [tasks EXCEPT ![t].pc = "persist"]
                   ELSE [tasks EXCEPT ![t].pc = "release",
                                      ![t].loc.pending = Throw("RenderException")]
    /\ obs' = [obs EXCEPT ![t].steps = @ \cup {"rendering"},
                          ![t].renderGizmos = <<drawGizmos>>]
    /\ UNCHANGED tcs
    /\ EngineFrame
    /\ UNCHANGED toolVars

\* File.WriteAllBytes replaces whatever the path held
WriteFile(fs, path, t) == {f \in fs : f.path # path} \cup {[path |-> path, by |-> t]}

\* lines 155-160: encode and write; either may throw
Persist(t) ==
    /\ At(t, "persist")
    /\ \E outcome \in {"ok", "throws"} :
          IF outcome = "ok"
          THEN /\ tasks' = [tasks EXCEPT ![t].pc = "release"]
               /\ files' = WriteFile(files, tasks[t].loc.filePath, t)
               /\ obs' = [obs EXCEPT ![t].steps = @ \cup {"persisting"},
                                     ![t].wrote = <<tasks[t].loc.filePath>>]
          ELSE /\ tasks' = [tasks EXCEPT ![t].pc = "release",
                                         ![t].loc.pending = Throw("IOException")]
               /\ obs' = [obs EXCEPT ![t].steps = @ \cup {"persisting"}]
               /\ UNCHANGED files
    /\ UNCHANGED <<tcs, delayCall, sceneView, cameraPresent, drawGizmos, cameraTarget,
                   activeTarget, tempSurfaces, dirExists, now>>
    /\ UNCHANGED toolVars

\* the release written after the try body instead of in a finally block
ReleaseSurfaceNotFinally(t) ==
    /\ At(t, "release")
    /\ LET ok == tasks[t].loc.pending.kind = "none"
       IN  /\ cameraTarget' = IF ok THEN tasks[t].loc.previousTarget ELSE cameraTarget
           /\ activeTarget' = IF ok THEN tasks[t].loc.previousActive ELSE activeTarget
           /\ tempSurfaces' = IF ok THEN tempSurfaces \ {tasks[t].loc.renderTexture}
                              ELSE tempSurfaces
           /\ obs' = [obs EXCEPT ![t].steps = @ \cup {"release"},
                                 ![t].releases = IF ok THEN @ + 1 ELSE @]
    /\ tasks' = [tasks EXCEPT ![t].pc = "restore"]
    /\ UNCHANGED <<tcs, delayCall, sceneView, cameraPresent, drawGizmos,
                   dirExists, files, now>>
    /\ UNCHANGED toolVars

\* lines 162-167: the inner finally
ReleaseSurface(t) ==
    /\ At(t, "release")
    /\ cameraTarget' = tasks[t].loc.previousTarget
    /\ activeTarget' = tasks[t].loc.previousActive
    /\ tempSurfaces' = tempSurfaces \ {tasks[t].loc.renderTexture}
    /\ tasks' = [tasks EXCEPT ![t].pc = "restore"]
    /\ obs' = [obs EXCEPT ![t].steps = @ \cup {"release"},
                          ![t].releases = @ + 1]
    /\ UNCHANGED <<tcs, delayCall, sceneView, cameraPresent, drawGizmos,
                   dirExists, files, now>>
    /\ UNCHANGED toolVars

\* where control goes once the outer finally has run
AfterFinally(loc) ==
    IF loc.pending.kind = "throw" THEN "catchInner"
    ELSE IF loc.pending.kind = "return" THEN "setResult"
    ELSE "respond"

\* the restore written after the try body instead of in a finally block
RestoreGizmosNotFinally(t) ==
    /\ At(t, "restore")
    /\ drawGizmos' = IF tasks[t].loc.pending.kind = "none"
                     THEN tasks[t].loc.currentGizmos ELSE drawGizmos
    /\ LET loc == tasks[t].loc
       IN  tasks' = [tasks EXCEPT
                        ![t].pc = AfterFinally(loc),
                        ![t].loc.result =
                            IF loc.pending.kind = "return"
                            THEN <<loc.pending.value>> ELSE @]
    /\ obs' = [obs EXCEPT ![t].steps = @ \cup {"restoring"}]
    /\ UNCHANGED <<tcs, delayCall, sceneView, cameraPresent, cameraTarget,
                   activeTarget, tempSurfaces, dirExists, files, now>>
    /\ UNCHANGED toolVars

\* the restore missed by the early return of the camera check
RestoreGizmosUnlessReturning(t) ==
    /\ At(t, "restore")
    /\ drawGizmos' = IF tasks[t].loc.pending.kind = "return"
                     THEN drawGizmos ELSE tasks[t].loc.currentGizmos
    /\ LET loc == tasks[t].loc
       IN  tasks' = [tasks EXCEPT
                        ![t].pc = AfterFinally(loc),
                        ![t].loc.result =
                            IF loc.pending.kind = "return"
                            THEN <<loc.pending.value>> ELSE @]
    /\ obs' = [obs EXCEPT ![t].steps = @ \cup {"restoring"}]
    /\ UNCHANGED <<tcs, delayCall, sceneView, cameraPresent, cameraTarget,
                   activeTarget, tempSurfaces, dirExists, files, now>>
    /\ UNCHANGED toolVars

\* lines 169-174: the outer finally
RestoreGizmos(t) ==
    /\ At(t, "restore")
    /\ drawGizmos' = tasks[t].loc.currentGizmos
    /\ LET loc == tasks[t].loc
       IN  tasks' = [tasks EXCEPT
                        ![t].pc = AfterFinally(loc),
                        ![t].loc.result =
                            IF loc.pending.kind = "return"
                            THEN <<loc.pending.value>> ELSE @]
    /\ obs' = [obs EXCEPT ![t].steps = @ \cup {"restoring"}]
    /\ UNCHANGED <<tcs, delayCall, sceneView, cameraPresent, cameraTarget,
                   activeTarget, tempSurfaces, dirExists, files, now>>
    /\ UNCHANGED toolVars

\* $"{width}x{height}"
ResolutionText(width, height) == ToDecimal(width) \o <<"x">> \o ToDecimal(height)

\* lines 177-189 and 211-212: the response object
SuccessResponse(loc, gizmosNow) ==
    [success |-> TRUE,
     type |-> "screenshot",
     filePath |-> loc.filePath,
     timestamp |-> loc.timestamp,
     resolution |-> ResolutionText(loc.width, loc.height),
     captureMethod |-> <<"Scene View">>,
     captureType |-> <<"MCP ">> \o loc.mode \o <<" capture">>,
     withGizmos |-> gizmosNow,
     withLabels |-> loc.withLabels,
     mode |-> loc.mode,
     message |-> <<"Screenshot captured successfully: ">> \o loc.filePath]

\* lines 176-214: the response is built after both finally blocks
Respond(t) ==
    /\ At(t, "respond")
    /\ tasks' = [tasks EXCEPT
                    ![t].pc = "setResult",
                    ![t].loc.result = <<SuccessResponse(tasks[t].loc, drawGizmos)>>]
    /\ obs' = [obs EXCEPT ![t].steps = @ \cup {"respond"}]
    /\ UNCHANGED tcs
    /\ EngineFrame
    /\ UNCHANGED toolVars

\* the catch of CaptureSceneViewScreenshot reporting the closure's error code
CatchInnerOtherCode(t) ==
    /\ At(t, "catchInner")
    /\ tasks' = [tasks EXCEPT
                    ![t].pc = "setResult",
                    ![t].loc.pending = NoPending,
                    ![t].loc.result =
                        <<CreateErrorResponse(
                            <<"Failed to capture screenshot: ", tasks[t].loc.pending.exc>>,
                            "capture_exception")>>]
    /\ obs' = [obs EXCEPT ![t].steps = @ \cup {"catchInner"}]
    /\ UNCHANGED tcs
    /\ EngineFrame
    /\ UNCHANGED toolVars

\* a catch that only logs, after which the method builds its usual response
CatchInnerLogsAndAnswers(t) ==
    /\ At(t, "catchInner")
    /\ tasks' = [tasks EXCEPT
                    ![t].pc = "setResult",
                    ![t].loc.pending = NoPending,
                    ![t].loc.result = <<SuccessResponse(tasks[t].loc, drawGizmos)>>]
    /\ obs' = [obs EXCEPT ![t].steps = @ \cup {"catchInner"}]
    /\ UNCHANGED tcs
    /\ EngineFrame
    /\ UNCHANGED toolVars

\* lines 216-222: the catch of CaptureSceneViewScreenshot
CatchInner(t) ==
    /\ At(t, "catchInner")
    /\ tasks' = [tasks EXCEPT
                    ![t].pc = "setResult",
                    ![t].loc.pending = NoPending,
                    ![t].loc.result =
                        <<CreateErrorResponse(
                            <<"Failed to capture screenshot: ", tasks[t].loc.pending.exc>>,
                            "capture_failed")>>]
    /\ obs' = [obs EXCEPT ![t].steps = @ \cup {"catchInner"}]
    /\ UNCHANGED tcs
    /\ EngineFrame
    /\ UNCHANGED toolVars

\* TaskCompletionSource.TrySetResult: only a pending source takes the value
TrySetResult(h, value) ==
    IF h.status = "pending"
    THEN [status |-> "result", value |-> <<value>>, sets |-> h.sets + 1]
    ELSE h

\* line 59
SetResult(t) ==
    /\ At(t, "setResult")
    /\ tcs' = [tcs EXCEPT ![t] = TrySetResult(@, tasks[t].loc.result[1])]
    /\ tasks' = [tasks EXCEPT ![t].pc = "done", ![t].loc = NoLocals]
    /\ obs' = [obs EXCEPT ![t].steps = @ \cup {"setResult"}]
    /\ EngineFrame
    /\ UNCHANGED toolVars

\* TaskCompletionSource.TrySetException: a pending source becomes faulted
TrySetException(h, e) ==
    IF h.status = "pending"
    THEN [status |-> "faulted", value |-> <<e>>, sets |-> h.sets + 1]
    ELSE h

\* the catch of the closure only logging the error
CatchOuterLogOnly(t) ==
    /\ At(t, "catchOuter")
    /\ tasks' = [tasks EXCEPT ![t].pc = "done", ![t].loc = NoLocals]
    /\ obs' = [obs EXCEPT ![t].steps = @ \cup {"catchOuter"}]
    /\ UNCHANGED tcs
    /\ EngineFrame
    /\ UNCHANGED toolVars

\* the catch of the closure handing the exception to the source
CatchOuterSetException(t) ==
    /\ At(t, "catchOuter")
    /\ tcs' = [tcs EXCEPT ![t] = TrySetException(@, tasks[t].loc.pending.exc)]
    /\ tasks' = [tasks EXCEPT ![t].pc = "done", ![t].loc = NoLocals]
    /\ obs' = [obs EXCEPT ![t].steps = @ \cup {"catchOuter"}]
    /\ EngineFrame
    /\ UNCHANGED toolVars

\* lines 61-69: the catch of the closure
CatchOuter(t) ==
    /\ At(t, "catchOuter")
    /\ tcs' = [tcs EXCEPT ![t] =
                  TrySetResult(@, CreateErrorResponse(
                      <<"Exception during screenshot capture: ", tasks[t].loc.pending.exc>>,
                      "capture_exception"))]
    /\ tasks' = [tasks EXCEPT ![t].pc = "done", ![t].loc = NoLocals]
    /\ obs' = [obs EXCEPT ![t].steps = @ \cup {"catchOuter"}]
    /\ EngineFrame
    /\ UNCHANGED toolVars

\* ------------------------------------------------------------- environment
\* DateTime.Now advances
ClockTick ==
    /\ now < MaxClock
    /\ now' = now + 1
    /\ UNCHANGED <<tasks, tcs, delayCall, sceneView, cameraPresent, drawGizmos,
                   cameraTarget, activeTarget, tempSurfaces, dirExists, files, obs>>
    /\ UNCHANGED toolVars

\* DateTime.Now is the local wall clock: it can be set back
ClockSetBack ==
    /\ now > 0
    /\ now' = now - 1
    /\ UNCHANGED <<tasks, tcs, delayCall, sceneView, cameraPresent, drawGizmos,
                   cameraTarget, activeTarget, tempSurfaces, dirExists, files, obs>>
    /\ UNCHANGED toolVars

Next ==
    \/ \E p \in Requests : ExecuteAsync(p, MaxTasks)
    \/ \E t \in TaskIds : RunClosure(t)
    \/ \E t \in TaskIds : ResolveSceneView(t)
    \/ \E t \in TaskIds : Prepare(t)
    \/ \E t \in TaskIds : Configure(t)
    \/ \E t \in TaskIds : AcquireSurface(t)
    \/ \E t \in TaskIds : Redirect(t)
    \/ \E t \in TaskIds : Render(t)
    \/ \E t \in TaskIds : Persist(t)
    \/ \E t \in TaskIds : ReleaseSurface(t)
    \/ \E t \in TaskIds : RestoreGizmos(t)
    \/ \E t \in TaskIds : Respond(t)
    \/ \E t \in TaskIds : CatchInner(t)
    \/ \E t \in TaskIds : SetResult(t)
    \/ \E t \in TaskIds : CatchOuter(t)
    \/ ClockTick
    \/ ClockSetBack

Spec == Init /\ [][Next]_vars

NextConc ==
    \/ \E p \in ConcRequests : ExecuteAsync(p, MaxConcTasks)
    \/ \E t \in TaskIds : RunClosure(t)
    \/ \E t \in TaskIds : ResolveSceneView(t)
    \/ \E t \in TaskIds : Prepare(t)
    \/ \E t \in TaskIds : Configure(t)
    \/ \E t \in TaskIds : AcquireSurface(t)
    \/ \E t \in TaskIds : Redirect(t)
    \/ \E t \in TaskIds : Render(t)
    \/ \E t \in TaskIds : Persist(t)
    \/ \E t \in TaskIds : ReleaseSurface(t)
    \/ \E t \in TaskIds : RestoreGizmos(t)
    \/ \E t \in TaskIds : Respond(t)
    \/ \E t \in TaskIds : CatchInner(t)
    \/ \E t \in TaskIds : SetResult(t)
    \/ \E t \in TaskIds : CatchOuter(t)
    \/ ClockTick
    \/ ClockSetBack

SpecConc == InitConc /\ [][NextConc]_vars

\* =================================================== the Node tool wrappers
JsUndefined == [t |-> "undefined"]
JsString(s) == [t |-> "string", s |-> s]

\* JavaScript truthiness of an optional string: undefined and "" are falsy
Falsy(v) == v.t = "undefined" \/ (v.t = "string" /\ v.s = <<>>)

\* a || b on optional strings
OrElse(a, b) == IF Falsy(a) THEN b ELSE a

SceneTools == {"create_scene", "load_scene", "delete_scene"}

SceneStrings == {JsUndefined, JsString(<<>>), JsString(<<"Assets/Scenes/A.unity">>)}
NameStrings == {JsUndefined, JsString(<<>>), JsString(<<"A">>)}

SceneParams == { [scenePath |-> sp, sceneName |-> sn] : sp \in SceneStrings, sn \in NameStrings }

CaptureParams ==
    { [mode |-> JsUndefined, resolution |-> JsUndefined],
      [mode |-> JsString(S_debug), resolution |-> JsString(S_4K)] }

ToolParams(tool) == IF tool \in SceneTools THEN SceneParams ELSE CaptureParams

\* create_scene running the check of the other two scene tools
CreateSceneInvalidWhenNeither(params) ==
    /\ params.scenePath.t = "undefined" \/ params.scenePath = JsString(<<>>)
    /\ params.sceneName.t = "undefined" \/ params.sceneName = JsString(<<>>)

\* createSceneTool.ts toolHandler: if (!params.sceneName)
CreateSceneInvalid(params) == Falsy(params.sceneName)

\* the check testing for empty strings instead of missing values
LoadSceneInvalidEmptyOnly(params) ==
    /\ params.scenePath = JsString(<<>>)
    /\ params.sceneName = JsString(<<>>)

\* part_000 (load_scene) toolHandler: if (!params.scenePath && !params.sceneName)
LoadSceneInvalid(params) == Falsy(params.scenePath) /\ Falsy(params.sceneName)

\* deleteSceneTool.ts toolHandler: if (!params.scenePath && !params.sceneName)
DeleteSceneInvalid(params) == Falsy(params.scenePath) /\ Falsy(params.sceneName)

\* the validation each toolHandler runs before sendRequest
Invalid(tool, params) ==
    IF tool = "create_scene" THEN CreateSceneInvalid(params)
    ELSE IF tool = "load_scene" THEN LoadSceneInvalid(params)
    ELSE IF tool = "delete_scene" THEN DeleteSceneInvalid(params)
    ELSE FALSE

ValidationMessage(tool) ==
    IF tool = "create_scene" THEN <<"'sceneName' must be provided">>
    ELSE <<"Either 'scenePath' or 'sceneName' must be provided">>

DefaultFailure(tool) ==
    IF tool = "create_scene" THEN <<"Failed to create scene">>
    ELSE IF tool = "load_scene" THEN <<"Failed to load scene">>
    ELSE IF tool = "delete_scene" THEN <<"Failed to delete scene">>
    ELSE <<"Failed to capture screenshot from Unity">>

\* the params of the request: the scene tools pass params through, the capture
\* tool fills in its defaults (captureScreenshotTool.ts lines 78-93)
RequestParams(tool, params) ==
    IF tool \in SceneTools THEN params
    ELSE [mode |-> IF params.mode.t = "undefined" THEN JsString(S_basic) ELSE params.mode,
          withGizmos |-> TRUE,
          withLabels |-> FALSE,
          resolution |-> IF params.resolution.t = "undefined"
                         THEN JsString(S_1080p) ELSE params.resolution]

NoOutcome == [kind |-> "none"]
McpUnityError(type, message) == [kind |-> "error", type |-> type, message |-> message]
ToolResult(response) == [kind |-> "result", response |-> response]

\* what mcpUnity.sendRequest can resolve to
Responses ==
    { [success |-> ok, message |-> m] :
        ok \in BOOLEAN, m \in {JsUndefined, JsString(<<>>), JsString(<<"engine message">>)} }

InitTools ==
    /\ tasks = <<>>
    /\ tcs = <<>>
    /\ delayCall = <<>>
    /\ sceneView = "lastActive"
    /\ cameraPresent = TRUE
    /\ drawGizmos = TRUE
    /\ cameraTarget = SceneViewTarget
    /\ activeTarget = NoTarget
    /\ tempSurfaces = {}
    /\ dirExists = FALSE
    /\ files = {}
    /\ now = 0
    /\ obs = <<>>
    /\ calls = <<>>
    /\ sent = <<>>
    /\ rpc = NoRpc
    /\ router = <<>>

CallIds == 1..Len(calls)

\* the callback registered with server.tool is invoked and calls toolHandler
InvokeTool(tool, params) ==
    /\ Len(calls) < MaxCalls
    /\ calls' = Append(calls, [tool |-> tool, params |-> params, pc |-> "handler",
                               response |-> <<>>, outcome |-> NoOutcome])
    /\ UNCHANGED <<sent, rpc, router>>
    /\ UNCHANGED engineVars

\* toolHandler up to its await: the validation, then sendRequest
HandlerStart(c) ==
    /\ c \in CallIds
    /\ calls[c].pc = "handler"
    /\ IF Invalid(calls[c].tool, calls[c].params)
       THEN /\ calls' = [calls EXCEPT
                            ![c].pc = "done",
                            ![c].outcome = McpUnityError("VALIDATION",
                                               JsString(ValidationMessage(calls[c].tool)))]
            /\ UNCHANGED sent
       ELSE /\ calls' = [calls EXCEPT ![c].pc = "awaiting"]
            /\ sent' = Append(sent, [method |-> calls[c].tool,
                                     params |-> RequestParams(calls[c].tool, calls[c].params),
                                     call |-> c])
    /\ UNCHANGED <<rpc, router>>
    /\ UNCHANGED engineVars

\* a handler that hands back whatever response it got
HandlerResumeUnchecked(c, response) ==
    /\ c \in CallIds
    /\ calls[c].pc = "awaiting"
    /\ calls' = [calls EXCEPT
                    ![c].pc = "done",
                    ![c].response = <<response>>,
                    ![c].outcome = ToolResult(response)]
    /\ UNCHANGED <<sent, rpc, router>>
    /\ UNCHANGED engineVars

\* toolHandler after its await, when sendRequest resolved
HandlerResume(c, response) ==
    /\ c \in CallIds
    /\ calls[c].pc = "awaiting"
    /\ calls' = [calls EXCEPT
                    ![c].pc = "done",
                    ![c].response = <<response>>,
                    ![c].outcome =
                        IF ~response.success
                        THEN McpUnityError("TOOL_EXECUTION",
                                           OrElse(response.message,
                                                  JsString(DefaultFailure(calls[c].tool))))
                        ELSE ToolResult(response)]
    /\ UNCHANGED <<sent, rpc, router>>
    /\ UNCHANGED engineVars

\* sendRequest rejected: the error leaves toolHandler as it is
HandlerRejected(c) ==
    /\ c \in CallIds
    /\ calls[c].pc = "awaiting"
    /\ calls' = [calls EXCEPT
                    ![c].pc = "done",
                    ![c].outcome = [kind |-> "rejected"]]
    /\ UNCHANGED <<sent, rpc, router>>
    /\ UNCHANGED engineVars

NextTools ==
    \/ \E tool \in SceneTools \cup {"capture_screenshot"} :
          \E params \in ToolParams(tool) : InvokeTool(tool, params)
    \/ \E c \in CallIds : HandlerStart(c)
    \/ \E c \in CallIds : \E response \in Responses : HandlerResume(c, response)
    \/ \E c \in CallIds : HandlerRejected(c)

SpecTools == InitTools /\ [][NextTools]_vars

\* ======================================================== the command router
MaxUnknown == 1

\* the registry as populated at startup: the capture tool registers under its Name
Registry == {"capture_screenshot"}

\* the method names a request can carry
Methods == Registry \cup {"take_picture"}

UnknownMethod == [success |-> FALSE, message |-> <<"unknown method">>]

RoutedRequests ==
    { Params(JAbsent, JAbsent, JAbsent, JAbsent),
      Params(JStr(S_custom), JBool(FALSE), JAbsent, JStr(S_1440p)) }

\* a router that hands the request to the dispatcher before it looks the method up
RouterHandleEnqueuesFirst(method, p, max) ==
    /\ Len(tasks) < max
    /\ tasks' = Append(tasks, [params |-> p, pc |-> "queued", loc |-> NoLocals])
    /\ tcs' = Append(tcs, [status |-> "pending", value |-> <<>>, sets |-> 0])
    /\ obs' = Append(obs, NoObs)
    /\ delayCall' = Append(delayCall, Len(tasks) + 1)
    /\ router' = IF method \in Registry \/ Len(router) >= MaxUnknown
                 THEN router
                 ELSE Append(router, [method |-> method, response |-> UnknownMethod])
    /\ UNCHANGED <<sceneView, cameraPresent, drawGizmos, cameraTarget, activeTarget,
                   tempSurfaces, dirExists, files, now>>
    /\ UNCHANGED <<calls, sent, rpc>>

\* handle(Request): a registered method has its handler invoked (the capture
\* handler defers to the main thread); an unknown method is answered at once
RouterHandle(method, p, max) ==
    IF method \in Registry
    THEN ExecuteAsync(p, max)
    ELSE /\ Len(router) < MaxUnknown
         /\ router' = Append(router, [method |-> method, response |-> UnknownMethod])
         /\ UNCHANGED engineVars
         /\ UNCHANGED <<calls, sent, rpc>>

InitRouter ==
    /\ Init
    /\ sceneView = "lastActive"
    /\ cameraPresent
    /\ ~dirExists

NextRouter ==
    \/ \E method \in Methods : \E p \in RoutedRequests : RouterHandle(method, p, MaxConcTasks)
    \/ \E t \in TaskIds : RunClosure(t)
    \/ \E t \in TaskIds : ResolveSceneView(t)
    \/ \E t \in TaskIds : Prepare(t)
    \/ \E t \in TaskIds : Configure(t)
    \/ \E t \in TaskIds : AcquireSurface(t)
    \/ \E t \in TaskIds : Redirect(t)
    \/ \E t \in TaskIds : Render(t)
    \/ \E t \in TaskIds : Persist(t)
    \/ \E t \in TaskIds : ReleaseSurface(t)
    \/ \E t \in TaskIds : RestoreGizmos(t)
    \/ \E t \in TaskIds : Respond(t)
    \/ \E t \in TaskIds : CatchInner(t)
    \/ \E t \in TaskIds : SetResult(t)

SpecRouter == InitRouter /\ [][NextRouter]_vars

\* ============================================================ the RPC client
MaxRequests == 2
MaxTimedRequests == 1
MaxIds == 2

CorrelationIds == 1..MaxIds

\* the capture requests the client sends
WireRequests ==
    { Params(JAbsent, JAbsent, JAbsent, JAbsent),
      Params(JStr(S_labels), JAbsent, JAbsent, JAbsent) }

FutureIds == 1..Len(rpc.futures)

PendingIds == {e.correlationId : e \in rpc.pending}

\* a future nobody has settled; engineBusy records, for a future rejected with
\* Timeout, whether its request's task was enqueued and unfinished at that time
Waiting == [status |-> "waiting", by |-> 0, engineBusy |-> FALSE]

\* sendRequest: an id unique among the pending calls, the PendingCall
\* registered, then the request written to the transport
SendRequest(id, p, max) ==
    /\ Len(rpc.futures) < max
    /\ id \in CorrelationIds \ PendingIds
    /\ rpc' = [rpc EXCEPT
                  !.pending = @ \cup {[correlationId |-> id, call |-> Len(rpc.futures) + 1]},
                  !.futures = Append(@, Waiting),
                  !.wire = Append(@, [correlationId |-> id,
                                      method |-> "capture_screenshot",
                                      params |-> p])]
    /\ UNCHANGED <<calls, sent, router>>
    /\ UNCHANGED engineVars

\* deadline expiry: the future is rejected with Timeout, the entry removed
Deadline(k) ==
    /\ k \in FutureIds
    /\ rpc.futures[k].status = "waiting"
    /\ rpc' = [rpc EXCEPT
                  !.pending = {e \in @ : e.call # k},
                  !.futures[k] = [status |-> "timeout", by |-> 0,
                                  engineBusy |-> k \in TaskIds /\ tasks[k].pc # "done"]]
    /\ UNCHANGED <<calls, sent, router>>
    /\ UNCHANGED engineVars

\* the response to the j-th request written arrives, tagged with that request's
\* id: a PendingCall with the id has its future resolved and is removed, and a
\* response whose id is in no PendingCall is dropped
OnResponse(j) ==
    /\ j \in (1..Len(rpc.wire)) \ rpc.answered
    /\ j \in TaskIds
    /\ tcs[j].status = "result"
    /\ LET match == {e \in rpc.pending : e.correlationId = rpc.wire[j].correlationId}
       IN  IF match # {}
           THEN LET e == CHOOSE e \in match : TRUE
                IN  rpc' = [rpc EXCEPT
                               !.pending = @ \ {e},
                               !.futures[e.call] = [status |-> "resolved", by |-> j,
                                                    engineBusy |-> FALSE],
                               !.answered = @ \cup {j}]
           ELSE rpc' = [rpc EXCEPT !.dropped = @ + 1, !.answered = @ \cup {j}]
    /\ UNCHANGED <<calls, sent, router>>
    /\ UNCHANGED engineVars

\* the transport hands the oldest request not yet handled to the router
DeliverRequest(max) ==
    /\ Len(tasks) < Len(rpc.wire)
    /\ RouterHandle(rpc.wire[Len(tasks) + 1].method, rpc.wire[Len(tasks) + 1].params, max)

InitRpc ==
    /\ Init
    /\ sceneView = "lastActive"
    /\ cameraPresent
    /\ ~drawGizmos
    /\ ~dirExists

\* one step of the main thread
MainThreadStep ==
    \E t \in TaskIds :
        \/ RunClosure(t)
        \/ ResolveSceneView(t)
        \/ Prepare(t)
        \/ Configure(t)
        \/ AcquireSurface(t)
        \/ Redirect(t)
        \/ Render(t)
        \/ Persist(t)
        \/ ReleaseSurface(t)
        \/ RestoreGizmos(t)
        \/ Respond(t)
        \/ CatchInner(t)
        \/ SetResult(t)

NextRpc ==
    \/ \E id \in CorrelationIds : \E p \in WireRequests : SendRequest(id, p, MaxRequests)
    \/ \E k \in FutureIds : Deadline(k)
    \/ \E j \in TaskIds : OnResponse(j)
    \/ DeliverRequest(MaxRequests)
    \/ \E t \in TaskIds : RunClosure(t)
    \/ \E t \in TaskIds : ResolveSceneView(t)
    \/ \E t \in TaskIds : Prepare(t)
    \/ \E t \in TaskIds : Configure(t)
    \/ \E t \in TaskIds : AcquireSurface(t)
    \/ \E t \in TaskIds : Redirect(t)
    \/ \E t \in TaskIds : Render(t)
    \/ \E t \in TaskIds : Persist(t)
    \/ \E t \in TaskIds : ReleaseSurface(t)
    \/ \E t \in TaskIds : RestoreGizmos(t)
    \/ \E t \in TaskIds : Respond(t)
    \/ \E t \in TaskIds : CatchInner(t)
    \/ \E t \in TaskIds : SetResult(t)

SpecRpc == InitRpc /\ [][NextRpc]_vars

\* the same system with fewer requests in flight, for properties of whole runs
NextTimeout ==
    \/ \E id \in CorrelationIds : \E p \in WireRequests : SendRequest(id, p, MaxTimedRequests)
    \/ \E k \in FutureIds : Deadline(k)
    \/ \E j \in TaskIds : OnResponse(j)
    \/ DeliverRequest(MaxTimedRequests)
    \/ \E t \in TaskIds : RunClosure(t)
    \/ \E t \in TaskIds : ResolveSceneView(t)
    \/ \E t \in TaskIds : Prepare(t)
    \/ \E t \in TaskIds : Configure(t)
    \/ \E t \in TaskIds : AcquireSurface(t)
    \/ \E t \in TaskIds : Redirect(t)
    \/ \E t \in TaskIds : Render(t)
    \/ \E t \in TaskIds : Persist(t)
    \/ \E t \in TaskIds : ReleaseSurface(t)
    \/ \E t \in TaskIds : RestoreGizmos(t)
    \/ \E t \in TaskIds : Respond(t)
    \/ \E t \in TaskIds : CatchInner(t)
    \/ \E t \in TaskIds : SetResult(t)

\* the editor keeps pumping its update loop: a callback in delayCall is invoked
\* and, being synchronous, runs to its end
SpecTimeout == InitRpc /\ [][NextTimeout]_vars /\ WF_vars(MainThreadStep)

\* ================================================================= claims
Fulfilled(t) == tcs[t].status = "result"
ResponseOf(t) == tcs[t].value[1]
Succeeded(t) == Fulfilled(t) /\ ResponseOf(t).success
Failed(t) == Fulfilled(t) /\ ~ResponseOf(t).success

\* CaptureSceneViewScreenshot has just returned to, or thrown into, the closure
JustLeftCapture(t) ==
    /\ tasks[t].pc \in {"setResult", "catchOuter"}
    /\ "resolvingTarget" \in obs[t].steps

\* C1: for every capture that reached Configuring, whatever the mode and the
\* outcome, drawGizmos right after CaptureSceneViewScreenshot has returned
\* equals drawGizmos right before it was called.
C1_GizmosRestored ==
    \A t \in TaskIds :
        (JustLeftCapture(t) /\ "configuring" \in obs[t].steps)
            => drawGizmos = obs[t].entryGizmos

\* a capture whose mode switched the flag and whose render or write threw
C1_Witness ==
    \E t \in TaskIds :
        /\ JustLeftCapture(t)
        /\ "catchInner" \in obs[t].steps
        /\ obs[t].renderGizmos = <<~obs[t].entryGizmos>>
        /\ drawGizmos = obs[t].entryGizmos

\* C2: once its closure has run, every task's completion source has gone from
\* pending to fulfilled exactly once; before that it is pending and was never set.
C2_FulfilledExactlyOnce ==
    \A t \in TaskIds :
        /\ tcs[t].sets <= 1
        /\ tasks[t].pc = "done" => (tcs[t].sets = 1 /\ tcs[t].status # "pending")
        /\ tasks[t].pc # "done" => (tcs[t].sets = 0 /\ tcs[t].status = "pending")

\* a closure that ended in its own catch block, with its source set once
C2_Witness ==
    \E t \in TaskIds :
        /\ tasks[t].pc = "done"
        /\ "catchOuter" \in obs[t].steps
        /\ tcs[t].sets = 1

\* an exception was raised during the capture attempt of task t
ExceptionRaised(t) == obs[t].steps \cap {"catchInner", "catchOuter"} # {}

\* C3: an exception raised anywhere in a capture attempt ends as a source
\* fulfilled with a response whose success is false and that has a message; no
\* source is ever faulted, and the closure ends normally.
C3_ExceptionBecomesFailure ==
    \A t \in TaskIds :
        /\ tcs[t].status # "faulted"
        /\ (ExceptionRaised(t) /\ tasks[t].pc = "done")
            => /\ Fulfilled(t)
               /\ ResponseOf(t).success = FALSE
               /\ ResponseOf(t).message # <<>>

\* a capture whose render pass threw and whose source holds a failure
C3_Witness ==
    \E t \in TaskIds :
        /\ tasks[t].pc = "done"
        /\ {"rendering", "catchInner"} \subseteq obs[t].steps
        /\ Failed(t)

\* the steps after ResolvingTarget
LaterSteps == {"configuring", "cameraCheck", "redirect", "rendering", "persisting",
               "release", "restoring", "respond"}

\* C4: a capture that fails for want of a view or of a camera has run no later
\* step and has mutated nothing: drawGizmos was never written, the directory
\* was not created, no render texture was allocated.
C4_ResolutionFailureMutatesNothing ==
    \A t \in TaskIds :
        (Failed(t) /\ ResponseOf(t).type \in {"no_scene_view", "no_camera"})
            => /\ obs[t].gizmoWrites = 0
               /\ ~obs[t].createdDir
               /\ obs[t].allocs = 0
               /\ obs[t].steps \cap (LaterSteps \ {"cameraCheck"}) = {}

\* C5 as stated: every failure carries one of three codes, and an exception
\* during Rendering or Persisting carries the capture-exception code.
C5_ThreeErrorCodes ==
    \A t \in TaskIds :
        Failed(t) =>
            /\ ResponseOf(t).type \in {"no_scene_view", "no_camera", "capture_exception"}
            /\ ("rendering" \in obs[t].steps /\ ExceptionRaised(t))
                   => ResponseOf(t).type = "capture_exception"

\* C5 amended: every failure carries one of four codes; an exception caught
\* inside CaptureSceneViewScreenshot (directory creation, Rendering, Persisting)
\* carries capture_failed, and capture_exception is carried exactly by the
\* failures that reached the closure's own catch.
C5_FourErrorCodes ==
    \A t \in TaskIds :
        Failed(t) =>
            /\ ResponseOf(t).type \in {"no_scene_view", "no_camera",
                                       "capture_failed", "capture_exception"}
            /\ "catchInner" \in obs[t].steps => ResponseOf(t).type = "capture_failed"
            /\ "catchOuter" \in obs[t].steps <=> ResponseOf(t).type = "capture_exception"
            /\ ~ExceptionRaised(t) => ResponseOf(t).type \in {"no_scene_view", "no_camera"}

\* a failure whose exception was thrown while persisting
C5_Witness ==
    \E t \in TaskIds :
        /\ Failed(t)
        /\ {"persisting", "catchInner"} \subseteq obs[t].steps
        /\ ResponseOf(t).type = "capture_failed"

Text_1920x1080 == <<"1","9","2","0","x","1","0","8","0">>
Text_2560x1440 == <<"2","5","6","0","x","1","4","4","0">>
Text_3840x2160 == <<"3","8","4","0","x","2","1","6","0">>

\* the dimensions the interface documents for a resolution parameter
DocumentedDims(tok) ==
    IF tok = JStr(S_1440p) THEN <<2560, 1440>>
    ELSE IF tok = JStr(S_4K) THEN <<3840, 2160>>
    ELSE <<1920, 1080>>

DocumentedText(tok) ==
    IF tok = JStr(S_1440p) THEN Text_2560x1440
    ELSE IF tok = JStr(S_4K) THEN Text_3840x2160
    ELSE Text_1920x1080

\* the closure is past parameter extraction and holds its locals
HoldsLocals(t) == tasks[t].pc \notin {"queued", "catchOuter", "done"}

\* C6: "1080p" gives 1920x1080, "1440p" 2560x1440, "4K" 3840x2160, an absent
\* or unrecognised resolution 1920x1080 and no error; a Success response
\* reports that width and height as "WxH".
C6_ResolutionPresets ==
    \A t \in TaskIds :
        LET tok == tasks[t].params.resolution
        IN  /\ HoldsLocals(t)
                => <<tasks[t].loc.width, tasks[t].loc.height>> = DocumentedDims(tok)
            /\ (tasks[t].pc = "catchOuter" /\ "resolvingTarget" \notin obs[t].steps)
                => ExtractThrows(tasks[t].params)
            /\ Succeeded(t) => ResponseOf(t).resolution = DocumentedText(tok)

\* a successful capture asked for "4K"
C6_Witness ==
    \E t \in TaskIds :
        /\ Succeeded(t)
        /\ tasks[t].params.resolution = JStr(S_4K)
        /\ ResponseOf(t).resolution = Text_3840x2160

\* C7: two capture requests that both succeed report two distinct file paths,
\* whatever their modes.
C7_DistinctPaths ==
    \A t \in TaskIds : \A u \in TaskIds :
        (t # u /\ Succeeded(t) /\ Succeeded(u))
            => ResponseOf(t).filePath # ResponseOf(u).filePath

\* between the end of Configuring and the end of Restoring
Configured(t) ==
    tasks[t].pc \in {"camera", "redirect", "render", "persist", "release", "restore"}

Running(t) == tasks[t].pc \notin {"queued", "done"}

\* C8: capture tasks run one at a time in submission order: while one task is
\* running no other is, a task starts only when every earlier one is done, and
\* the drawGizmos and render target a task snapshots are never the values
\* another task applied (all snapshots agree, none is a temporary surface).
C8_RunToCompletionInOrder ==
    \A t \in TaskIds : \A u \in TaskIds :
        /\ (t # u /\ Running(t)) => (~Running(u) /\ ~Configured(u))
        /\ (t < u /\ tasks[u].pc # "queued") => tasks[t].pc = "done"
        /\ (obs[t].snapGizmos # <<>> /\ obs[u].snapGizmos # <<>>)
               => obs[t].snapGizmos = obs[u].snapGizmos
        /\ obs[t].snapTarget \in {<<>>, <<SceneViewTarget>>}

\* a second request waits in delayCall while the first one is in its render
\* pass with a flag other than the one it found
C8_Witness ==
    \E t \in TaskIds : \E u \in TaskIds :
        /\ tasks[t].pc = "render"
        /\ <<drawGizmos>> # obs[t].snapGizmos
        /\ cameraTarget = TempSurface(t)
        /\ tasks[u].pc = "queued"

\* the invocation of task t is past its inner finally and not yet ended
PastRelease(t) == tasks[t].pc \in {"restore", "respond", "catchInner", "setResult"}

\* C9: a capture that redirected the camera to a temporary surface has, on
\* every way out of Rendering, released that surface exactly once, and the
\* camera's target and the active target are what they were before the redirect.
C9_SurfaceReleasedTargetsRestored ==
    \A t \in TaskIds :
        /\ obs[t].releases <= obs[t].allocs
        /\ (obs[t].redirected /\ PastRelease(t))
            => /\ obs[t].releases = 1
               /\ TempSurface(t) \notin tempSurfaces
               /\ cameraTarget = obs[t].targetBefore
               /\ activeTarget = obs[t].activeBefore
        /\ (obs[t].redirected /\ tasks[t].pc = "done") => obs[t].releases = 1

\* a capture whose render or write threw, after its inner finally
C9_Witness ==
    \E t \in TaskIds :
        /\ obs[t].redirected
        /\ tasks[t].pc = "catchInner"
        /\ obs[t].releases = 1
        /\ cameraTarget = SceneViewTarget

\* the call gave neither scenePath nor sceneName
NeitherGiven(c) ==
    /\ calls[c].tool \in SceneTools
    /\ calls[c].params.scenePath = JsUndefined
    /\ calls[c].params.sceneName = JsUndefined

SentBy(c) == {i \in 1..Len(sent) : sent[i].call = c}

\* C10: create_scene, load_scene and delete_scene called with neither scenePath
\* nor sceneName end in a validation error and never call sendRequest.
C10_NeitherGivenFailsLocally ==
    \A c \in CallIds :
        NeitherGiven(c) =>
            /\ SentBy(c) = {}
            /\ calls[c].pc \in {"handler", "done"}
            /\ calls[c].pc = "done"
                   => (calls[c].outcome.kind = "error" /\ calls[c].outcome.type = "VALIDATION")

\* load_scene called with neither, ended
C10_Witness ==
    \E c \in CallIds :
        /\ NeitherGiven(c)
        /\ calls[c].tool = "load_scene"
        /\ calls[c].pc = "done"
        /\ calls[c].outcome.kind = "error"
        /\ Len(sent) = 0

\* the value is there and is not the empty string
Supplied(v) == v.t = "string" /\ v.s # <<>>

\* the handler of call c threw its validation error
ValidationFailed(c) ==
    /\ calls[c].pc = "done"
    /\ calls[c].outcome.kind = "error"
    /\ calls[c].outcome.type = "VALIDATION"

\* C11 as stated: for create_scene, load_scene and delete_scene alike, a call
\* that supplies scenePath or sceneName passes validation and, once its handler
\* has run, has issued exactly one request.
C11_EitherGivenPasses ==
    \A c \in CallIds :
        (/\ calls[c].tool \in SceneTools
         /\ Supplied(calls[c].params.scenePath) \/ Supplied(calls[c].params.sceneName)
         /\ calls[c].pc # "handler")
            => /\ ~ValidationFailed(c)
               /\ Cardinality(SentBy(c)) = 1

\* what has to be supplied for the tool's validation to pass
RequiredGiven(c) ==
    IF calls[c].tool = "create_scene"
    THEN Supplied(calls[c].params.sceneName)
    ELSE Supplied(calls[c].params.scenePath) \/ Supplied(calls[c].params.sceneName)

\* C11 amended: load_scene and delete_scene fail validation exactly when neither
\* scenePath nor sceneName is supplied; create_scene fails validation exactly
\* when sceneName is not supplied, whatever scenePath is. A call that passes
\* has issued exactly one request, a call that fails none.
C11_RequiredGivenPasses ==
    \A c \in CallIds :
        (calls[c].tool \in SceneTools /\ calls[c].pc # "handler")
            => /\ ValidationFailed(c) <=> ~RequiredGiven(c)
               /\ Cardinality(SentBy(c)) = IF RequiredGiven(c) THEN 1 ELSE 0

\* create_scene called with a scenePath and no sceneName: refused, nothing sent
C11_Witness ==
    \E c \in CallIds :
        /\ calls[c].tool = "create_scene"
        /\ Supplied(calls[c].params.scenePath)
        /\ calls[c].params.sceneName = JsUndefined
        /\ ValidationFailed(c)
        /\ SentBy(c) = {}

FourModes == {S_basic, S_labels, S_debug, S_custom}

\* C12: once parameter extraction is over, the mode the handler works with is
\* basic, labels, debug or custom, whatever mode string the request carried, an
\* absent mode being basic: the mode that drives the switch and names the file
\* is one of the four, and so is the mode a Success response reports.
C12_ModeIsOneOfFour ==
    \A t \in TaskIds :
        /\ HoldsLocals(t) => tasks[t].loc.mode \in FourModes
        /\ (HoldsLocals(t) /\ tasks[t].params.mode = JAbsent) => tasks[t].loc.mode = S_basic
        /\ Succeeded(t) => ResponseOf(t).mode \in FourModes

\* C13: once a request has timed out, the late response carrying its
\* correlation id settles no future that is still waiting, whatever sendRequest
\* calls came in between, a call that took the freed id included: a future is
\* only ever resolved by the response to its own request.
C13_LateResponseResolvesNothing ==
    \A k \in FutureIds :
        rpc.futures[k].status = "resolved" => rpc.futures[k].by = k

\* C14: a request whose method is not in the registry is answered by the router
\* itself with success=false, and the step that answers it leaves the
\* dispatcher as it was: delayCall, the tasks and their completion sources are
\* unchanged, so no task is enqueued for that request.
C14_UnknownMethodNotEnqueued ==
    [][Len(router') > Len(router)
          => /\ router'[Len(router')].method \notin Registry
             /\ router'[Len(router')].response.success = FALSE
             /\ delayCall' = delayCall
             /\ tasks' = tasks
             /\ tcs' = tcs]_vars

\* an unknown method was answered while a capture waits in delayCall: the
\* queue holds that capture's task and nothing else
C14_Witness ==
    /\ Len(router) = 1
    /\ router[1].method = "take_picture"
    /\ ~router[1].response.success
    /\ Len(tasks) = 1
    /\ delayCall = <<1>>

\* the mode tokens of the requests, by the mode they ask for
BasicTokens == {JAbsent, JStr(S_basic)}
GizmoTokens == {JStr(S_labels), JStr(S_debug), JStr(S_Debug)}
CustomTokens == {JStr(S_custom)}

ModeIsOneOfFour(t) ==
    tasks[t].params.mode \in BasicTokens \cup GizmoTokens \cup CustomTokens

\* the overlay flag the interface documents for the request of task t
DocumentedGizmos(t) ==
    IF tasks[t].params.mode \in BasicTokens THEN FALSE
    ELSE IF tasks[t].params.mode \in GizmoTokens THEN TRUE
    ELSE IF tasks[t].params.withGizmos.t = "bool" THEN tasks[t].params.withGizmos.b
    ELSE TRUE

\* C15: for a request in one of the four modes (absent counting as basic,
\* "Debug" as debug), the overlay flag in effect during the render pass is off
\* for basic, on for labels and debug, and the withGizmos parameter for custom,
\* so for the other three modes it depends on neither withGizmos nor
\* withLabels; the rest of the render state (the camera's target, the active
\* target, the surface's size) depends on the task and the resolution only.
C15_RenderFlagFromMode ==
    \A t \in TaskIds :
        ModeIsOneOfFour(t) =>
            /\ obs[t].renderGizmos # <<>> => obs[t].renderGizmos = <<DocumentedGizmos(t)>>
            /\ tasks[t].pc = "render"
                => /\ drawGizmos = DocumentedGizmos(t)
                   /\ cameraTarget = TempSurface(t)
                   /\ activeTarget = TempSurface(t)
                   /\ <<tasks[t].loc.width, tasks[t].loc.height>>
                          = DocumentedDims(tasks[t].params.resolution)

\* a labels capture asked with withGizmos=false, rendered with the flag on
\* over a view that had it off
C15_Witness ==
    \E t \in TaskIds :
        /\ tasks[t].params.mode = JStr(S_labels)
        /\ tasks[t].params.withGizmos = JBool(FALSE)
        /\ obs[t].renderGizmos = <<TRUE>>
        /\ ~obs[t].entryGizmos

\* C16: whenever a task's completion source has been set, on success and on
\* every failure path, and the main thread is between callbacks (as it is at
\* the moment the source is set), drawGizmos is what the capture found, the
\* camera's target and the active target are what they were before the
\* redirect, and no temporary surface is held.
C16_RestoredWhenFulfilled ==
    \A t \in TaskIds :
        (tcs[t].status # "pending" /\ MainThreadIdle)
            => /\ "resolvingTarget" \in obs[t].steps => drawGizmos = obs[t].entryGizmos
               /\ obs[t].redirected
                      => (cameraTarget = obs[t].targetBefore
                          /\ activeTarget = obs[t].activeBefore)
               /\ tempSurfaces = {}

\* a capture that rendered with a flag other than the one it found and then
\* failed to write its file: its source holds the failure, all is restored
C16_Witness ==
    \E t \in TaskIds :
        /\ Failed(t)
        /\ {"persisting", "catchInner"} \subseteq obs[t].steps
        /\ obs[t].renderGizmos = <<~obs[t].entryGizmos>>
        /\ drawGizmos = obs[t].entryGizmos
        /\ cameraTarget = obs[t].targetBefore

\* the client's wait for request k ended in Timeout
TimedOut(k) == k \in FutureIds /\ rpc.futures[k].status = "timeout"

\* the capture task of request t has run to its end: restored and fulfilled
Completed(t) ==
    /\ t \in TaskIds
    /\ tasks[t].pc = "done"
    /\ tcs[t].status = "result"
    /\ "configuring" \in obs[t].steps => "restoring" \in obs[t].steps

\* a step in which some waiting future is rejected with Timeout
TimeoutStep ==
    \E k \in FutureIds :
        rpc.futures[k].status = "waiting" /\ rpc'.futures[k].status = "timeout"

\* C17: a client-side timeout changes nothing on the engine side, and a capture
\* task that is enqueued on the main thread runs to its end, restoration and
\* fulfilment of its source included, although the client's wait for its
\* request has timed out.
C17_TimeoutIsLocal ==
    /\ [][TimeoutStep => UNCHANGED engineVars]_vars
    /\ \A t \in 1..MaxTimedRequests : (t \in TaskIds /\ TimedOut(t)) ~> Completed(t)

\* the wait timed out while the task was enqueued and unfinished; the task has
\* since rendered, restored and fulfilled its source, and its response was dropped
C17_Witness ==
    \E t \in TaskIds :
        /\ TimedOut(t)
        /\ rpc.futures[t].engineBusy
        /\ Completed(t)
        /\ {"rendering", "restoring"} \subseteq obs[t].steps
        /\ t \in rpc.answered
        /\ rpc.dropped > 0

\* the message a tool-execution error of call c is to carry: the response's
\* message, or the tool's default when the response has none (or an empty one)
ExpectedFailureMessage(c) ==
    IF Supplied(calls[c].response[1].message)
    THEN calls[c].response[1].message
    ELSE JsString(DefaultFailure(calls[c].tool))

\* C18: a call of any of the four tools that passed validation has issued
\* exactly one sendRequest, also after a failed response (no retry); once the
\* response is in, the call ends in a result exactly when the response has
\* success=true, and otherwise in a tool-execution error with the response's
\* message, or with the tool's default message when the response has none.
C18_OneRequestResultIffSuccess ==
    \A c \in CallIds :
        /\ (calls[c].pc # "handler" /\ ~ValidationFailed(c))
               => Cardinality(SentBy(c)) = 1
        /\ calls[c].outcome.kind = "result"
               => (calls[c].response # <<>> /\ calls[c].response[1].success)
        /\ (calls[c].pc = "done" /\ calls[c].response # <<>>)
               => IF calls[c].response[1].success
                  THEN calls[c].outcome = ToolResult(calls[c].response[1])
                  ELSE calls[c].outcome
                           = McpUnityError("TOOL_EXECUTION", ExpectedFailureMessage(c))

\* capture_screenshot got success=false without a message: one request was
\* sent, the call ended in the error with the default message
C18_Witness ==
    \E c \in CallIds :
        /\ calls[c].tool = "capture_screenshot"
        /\ calls[c].pc = "done"
        /\ calls[c].response = <<[success |-> FALSE, message |-> JsUndefined]>>
        /\ calls[c].outcome.kind = "error"
        /\ calls[c].outcome.message = JsString(<<"Failed to capture screenshot from Unity">>)
        /\ Cardinality(SentBy(c)) = 1

\* C19: the withGizmos field of every Success response is the overlay flag the
\* view had during the render pass of that capture, whatever the mode and
\* whatever the flag was before the capture.
C19_ResponseReportsRenderFlag ==
    \A t \in TaskIds :
        Succeeded(t) => <<ResponseOf(t).withGizmos>> = obs[t].renderGizmos

\* C20: a Success response means that in the same invocation the render pass
\* and the read-back, encoding and write all ran and none threw, and that the
\* file at the reported filePath was written by that invocation and exists; a
\* capture in which any step threw is never answered with success=true.
C20_SuccessMeansFileWritten ==
    \A t \in TaskIds :
        /\ Succeeded(t)
               => /\ {"rendering", "persisting", "release", "restoring"} \subseteq obs[t].steps
                  /\ ~ExceptionRaised(t)
                  /\ obs[t].wrote = <<ResponseOf(t).filePath>>
                  /\ \E f \in files : f.path = ResponseOf(t).filePath
        /\ (ExceptionRaised(t) /\ Fulfilled(t)) => ~ResponseOf(t).success

\* a successful capture whose file is in the screenshot directory, written by it
C20_Witness ==
    \E t \in TaskIds :
        /\ Succeeded(t)
        /\ [path |-> ResponseOf(t).filePath, by |-> t] \in files
        /\ obs[t].wrote = <<ResponseOf(t).filePath>>

====
